---- MODULE Spec2Model ----
(***************************************************************************)
(* State-machine model of src/src/socket_listener.py (SocketListener): the *)
(* UDP receive loop, the length-prefixed stream loop shared by the          *)
(* inherited-descriptor and TCP transports, the two delivery sinks (the     *)
(* mutex-guarded live slot and the lock-guarded state queue) and their      *)
(* consumers.                                                               *)
(*                                                                         *)
(* Bytes are not stored one by one.  A run of bytes is a record             *)
(* [id, lo, hi): the bytes lo..hi-1 of the id-th message the peer wrote,    *)
(* where offsets 0..3 of a stream message are its length header and the     *)
(* payload starts at offset 4 (a datagram has no header: its payload starts *)
(* at offset 0).  A byte string is a sequence of such runs, adjacent runs   *)
(* merged, so two byte strings are equal exactly when their sequences are.  *)
(***************************************************************************)
EXTENDS Integers, Sequences, FiniteSets, TLC

VARIABLES
    \* ---- SocketListener fields (socket_listener.py:12-22)
    has_received, should_run, connection_closed, headless_buffer,
    state_queue, queue_lock,
    \* ---- state_manager.global_state_manager.state and global_state_mutex
    state, global_state_mutex,
    \* ---- the listener thread: position and locals of run / _run_stream_loop
    pc, prev_recv_time, recv_time, j, data, msg_len,
    \* ---- locals of _recv_exactly: n, buf, and the call site to return to
    recv_n, buf, recv_for,
    \* ---- environment: transport in use, clock, peer and socket
    transport, now, cur, cpos, nsent, conn, sock_open,
    \* ---- consumers: result of the last pop_state()
    last_pop,
    \* ---- SocketListener.actual_port, the descriptors besides the socket
    \*      read from, and the lines printed that the properties read
    actual_port, srv_open, orig_fd, stdout, stderr,
    \* ---- history (read by the properties only)
    log, popped, late_enable, stop_timeout, ndelivered, last_ret,
    naccepted, fd_closes, at_stop,
    \* ---- VideoRecorder fields (video_recorder.py:33-40)
    proc, is_recording, frame_count, recording_path, last_recv_time,
    fractional_frames,
    \* ---- the encoder processes started, and the history of the calls made
    \*      on the recorder (read by the properties only)
    procs, last_call, pipe_failed, started_since_stop, last_true

lvars == <<has_received, should_run, connection_closed, headless_buffer,
           state_queue, queue_lock>>
gvars == <<state, global_state_mutex>>
tvars == <<pc, prev_recv_time, recv_time, j, data, msg_len>>
rvars == <<recv_n, buf, recv_for>>
evars == <<transport, now, cur, cpos, nsent, conn, sock_open>>
cvars == <<last_pop>>
hvars == <<log, popped, late_enable, stop_timeout, ndelivered, last_ret>>
\* What only the start of a transport changes: the port, the listening
\* socket, the inherited descriptor, the error output.
svars == <<actual_port, srv_open, orig_fd, stderr, naccepted, fd_closes>>
\* The video recorder, which is an object of its own: no operation of the
\* listener touches it.
vrvars == <<proc, is_recording, frame_count, recording_path, last_recv_time,
            fractional_frames, procs, last_call, pipe_failed,
            started_since_stop, last_true>>
\* The listener and all that belongs to it, which no operation of the
\* recorder touches.
lsvars == <<lvars, gvars, tvars, rvars, evars, cvars, hvars, svars, stdout,
            at_stop>>
vars  == <<lvars, gvars, tvars, rvars, evars, cvars, hvars, svars, stdout,
           at_stop, vrvars>>

\* What the return of _recv_exactly to its call site may change, and what a
\* step inside _recv_exactly leaves alone.
retvars == <<pc, has_received, connection_closed, sock_open, msg_len, data,
             recv_n, buf, recv_for, log, cur, cpos, conn, last_ret>>
keepvars == <<should_run, headless_buffer, state_queue, queue_lock, gvars,
              prev_recv_time, recv_time, j, transport, now, nsent, cvars,
              popped, late_enable, ndelivered, svars, stdout, at_stop,
              vrvars>>

----------------------------------------------------------------------------
\* Bounds of the model: messages the peer sends, the latest clock reading,
\* and the payload length of an ordinary message.
MaxMsgs == 2
MaxTime == 2
ScenarioLen == 5

\* self.buffer_size (socket_listener.py:14)
buffer_size == 1024 * 1024

\* Python's None, in the shape of the value it stands in for.
NoneJ   == [id |-> 0, kind |-> "none"]
NoneRet == [ok |-> FALSE, bytes |-> <<>>]
NonePop == <<>>
\* state.doc after a read_from_json that raised part-way.
PartialDoc == 0 - 1

\* The port the operating system resolves a bind to (port 0 asks for any).
Ports == {49152}

\* at_stop before stop_async() has been called.
NoStop == [nd |-> 0 - 1, nl |-> 0 - 1, na |-> 0 - 1]

\* Bounds of the recorder model: frames one recording takes and encoder
\* processes started.
MaxFrames == 3
MaxProcs == 2

\* Python's None as a process handle and as a recording path.
NoneProc == 0
NonePath == 0
\* Names _generate_filename can give: the name is the time of the call to
\* the second, so two recordings may get the same name.
Paths == {1, 2}
\* last_call before any method of the recorder has been called.
NoCall == [op |-> "none", rec |-> FALSE, proc |-> NoneProc, fc |-> 0,
           path |-> NonePath, ff |-> 0, mem |-> 0 - 1, since |-> FALSE,
           lt |-> 0, arg |-> 0, wrote |-> 0, ret |-> FALSE]

\* What a payload is, by what the decoder and the state make of it:
\*   doc       a JSON document the state reads without error
\*   badschema a JSON document on which read_from_json raises
\*   null      the JSON value null (json.loads returns Python None)
\*   badjson   valid UTF-8 that is not JSON (json.JSONDecodeError)
\*   badutf8   bytes that are not UTF-8 (UnicodeDecodeError)
Kinds == {"doc", "badschema", "null", "badjson", "badutf8"}

\* Lengths a stream peer announces: empty, smallest, ordinary, the ceiling
\* itself and the first oversized length.
FrameLens == {0, 1, ScenarioLen, buffer_size, buffer_size + 1}

NoMsg == [id |-> 0, n |-> 0, kind |-> "badjson"]

\* Positions of the listener thread inside the delivery to a sink.
SinkPcs == {"q_lock", "q_append", "m_lock", "m_read", "m_time", "m_interval"}

----------------------------------------------------------------------------
\* Byte strings as sequences of runs.

Min(a, b) == IF a < b THEN a ELSE b

RECURSIVE BufLen(_)
BufLen(b) == IF b = <<>> THEN 0 ELSE (Head(b).hi - Head(b).lo) + BufLen(Tail(b))

\* bytearray.extend: concatenation (adjacent runs of one message merged).
Extend(b, c) ==
    IF c.hi = c.lo THEN b
    ELSE IF b # <<>> /\ b[Len(b)].id = c.id /\ b[Len(b)].hi = c.lo
         THEN [b EXCEPT ![Len(b)].hi = c.hi]
         ELSE Append(b, c)

\* The single bytes of a short byte string, as <<id, offset>> pairs.
RECURSIVE Flat(_)
Flat(b) ==
    IF b = <<>> THEN <<>>
    ELSE LET h == Head(b)
         IN  [i \in 1..(h.hi - h.lo) |-> <<h.id, h.lo + i - 1>>] \o Flat(Tail(b))

\* The bytes lo..hi-1 of message id, as a byte string.
Run(id, lo, hi) == IF hi <= lo THEN <<>> ELSE <<[id |-> id, lo |-> lo, hi |-> hi]>>

\* Offset of the first payload byte of a message on this transport.
PayloadLo == IF transport = "stream" THEN 4 ELSE 0
\* Number of bytes the peer writes for message m.
WireLen(m) == PayloadLo + m.n
\* The reader has taken every byte of the message in transmission.
Consumed == cur.id = 0 \/ cpos >= WireLen(cur)
\* The payload bytes the peer wrote for message m.
PayloadOf(m) == Run(m.id, PayloadLo, PayloadLo + m.n)

----------------------------------------------------------------------------
\* The frame codec and the decisions of the loops.

\* struct.pack("!I", n)[i], i = 0..3: the sender's big-endian length header.
PackByte(n, i) ==
    CASE i = 0 -> (n \div 16777216) % 256
      [] i = 1 -> (n \div 65536) % 256
      [] i = 2 -> (n \div 256) % 256
      [] OTHER -> n % 256

\* The value of the byte <<id, off>> on the wire: a header byte of the message
\* being transmitted, or else a payload byte (text, here a space).
WireByte(b) ==
    IF b[1] = cur.id /\ b[2] < PayloadLo THEN PackByte(cur.n, b[2]) ELSE 32

\* struct.unpack("!I", hdr) on the first 4 bytes of hdr.
Unpack(hdr) ==
    LET f == Flat(hdr)
    IN  WireByte(f[1]) * 16777216 + WireByte(f[2]) * 65536
        + WireByte(f[3]) * 256 + WireByte(f[4])

\* json.loads(data.decode("utf-8")): the outcome for a byte string.  The
\* payload of the message in transmission decodes as its kind says; any other
\* byte string (a part of a payload, bytes of two messages) is not JSON.
Decode(d) == IF d = PayloadOf(cur) /\ cur.n > 0 THEN cur.kind ELSE "badjson"

\* The statement a loop iteration continues with.
TopPc == IF transport = "udp" THEN "udp_top" ELSE "top"

Max(a, b) == IF a > b THEN a ELSE b

\* run, lines 62-66: view_range, len(snippet_prefix), and the window
\* err.doc[start:stop] of a document of len characters around offset pos.
view_range == 10
snippet_prefix_len == 15
SnippetStart(pos) == Max(0, pos - view_range)
SnippetStop(pos, len) == Min(pos + view_range, len - 1)

\* What the loops print for a JSONDecodeError at offset pos of a document of
\* len characters.  run prints the error (its text ends in `(char pos)`),
\* the window and, under it, a caret after len(snippet)//2 +
\* len(snippet_prefix) spaces; _run_stream_loop prints the error only.  (The
\* window is taken to hold no carriage return, which run would delete.)
Diagnostic(tr, pos, len) ==
    IF tr = "udp"
    THEN [line |-> "json_error", pos |-> pos, len |-> len, window |-> TRUE,
          start |-> SnippetStart(pos), stop |-> SnippetStop(pos, len),
          caret |-> (Max(0, SnippetStop(pos, len) - SnippetStart(pos)) \div 2)
                      + snippet_prefix_len]
    ELSE [line |-> "json_error", pos |-> pos, len |-> len, window |-> FALSE,
          start |-> 0, stop |-> 0, caret |-> 0]

\* err.pos for a payload that is not JSON: such a payload is taken to be an
\* opening brace followed by letters, which json.loads rejects at offset 1.
ErrPos(d) == Min(1, BufLen(d))

\* A failed decode that lets the failed message through to the sink.
DecodePcUnguarded(k) ==
    IF k = "badutf8" THEN "crashed"
    ELSE IF headless_buffer THEN "q_lock" ELSE "m_lock"

\* A failed decode that ends the thread.
DecodePcFatal(k) ==
    IF k \in {"badutf8", "badjson"} THEN "crashed"
    ELSE IF k = "null" THEN TopPc
    ELSE IF headless_buffer THEN "q_lock" ELSE "m_lock"

\* Where the loop goes after json.loads(data.decode("utf-8")) ended as k.  A
\* UnicodeDecodeError is no JSONDecodeError: no handler catches it and it ends
\* the thread.  After a JSONDecodeError j is None, and for the JSON value null
\* json.loads returns None: `if j is not None` skips both.  Otherwise
\* `if self._headless_buffer` chooses the sink.
DecodePc(k) ==
    IF k = "badutf8" THEN "crashed"
    ELSE IF k \in {"badjson", "null"} THEN TopPc
    ELSE IF headless_buffer THEN "q_lock" ELSE "m_lock"

\* A loop that has no case for the empty frame.
IsEmptyNever(len) == FALSE
\* `if msg_len == 0`
IsEmpty(len) == len = 0

\* `if msg_len > self.buffer_size`
Oversized(len) == len > buffer_size

\* An oversized branch that skips the frame without reading it.
DrainNothing(len) == 0
\* The number of bytes the oversized branch reads and throws away.
DrainLen(len) == len

\* A read that asks for n bytes again after a short read.
WantAll(n, have) == n
\* _recv_exactly: the size asked of sock.recv, n - len(buf).
Want(n, have) == n - have

\* An end of stream that returns what was collected so far.
OnEofShort(b) == [ok |-> TRUE, bytes |-> b]
\* _recv_exactly: `if not chunk: return None`
OnEof(b) == NoneRet

\* A poll timeout that is retried whatever the stop flag says.
TimeoutNeverAborts(running) == FALSE
\* _recv_exactly on socket.timeout: `if not self.should_run: return None`
TimeoutAborts(running) == ~running

\* An interval taken the wrong way round.
IntervalReversed(rt, prev) == prev - rt
\* recv_time - prev_recv_time
Interval(rt, prev) == rt - prev

\* What the message m is, for the history: as its payload kind says, unless
\* its length makes it an empty or an oversized frame.
TrueKind(m) ==
    IF transport = "stream" /\ m.n = 0 THEN "empty"
    ELSE IF transport = "stream" /\ m.n > buffer_size THEN "oversized"
    ELSE m.kind

\* time.time(): the clock read now.  The clock only moves forward; how far it
\* has moved since it was last read is up to the environment.
Times == now..MaxTime

\* Where the bytes of message m may arrive split: inside the header, between
\* header and payload, after the first payload byte, in the middle of the
\* payload, and at its end.
Cuts(m) == {c \in {PayloadLo \div 2, PayloadLo, PayloadLo + 1,
                    PayloadLo + (m.n \div 2)} : 0 < c /\ c < WireLen(m)}
             \cup {WireLen(m)}

\* Sizes of the chunk one sock.recv(want) may return when the reader is at
\* offset pos of message m: up to the next cuts within reach, or all that
\* was asked for (never past the end of the message in transmission).
ChunkSizes(m, pos, want) ==
    {e - pos : e \in {c \in Cuts(m) : c > pos /\ c - pos <= want}}
      \cup {Min(want, WireLen(m) - pos)}

----------------------------------------------------------------------------
\* SocketListener.__init__ and the world before the listener thread starts.
Init ==
    /\ has_received = FALSE
    /\ should_run = TRUE
    /\ connection_closed = FALSE
    /\ headless_buffer = FALSE
    /\ state_queue = <<>>
    /\ queue_lock = "free"
    /\ state = [doc |-> 0, recv_time |-> 0, recv_interval |-> 0]
    /\ global_state_mutex = "free"
    /\ pc = "idle"
    /\ prev_recv_time = 0
    /\ recv_time = 0
    /\ j = NoneJ
    /\ data = <<>>
    /\ msg_len = 0
    /\ recv_n = 0
    /\ buf = <<>>
    /\ recv_for = "hdr"
    /\ transport = "none"
    /\ now = 1
    /\ cur = NoMsg
    /\ cpos = 0
    /\ nsent = 0
    /\ conn = "open"
    /\ sock_open = FALSE
    /\ last_pop = NonePop
    /\ log = <<>>
    /\ popped = <<>>
    /\ late_enable = FALSE
    /\ stop_timeout = "none"
    /\ ndelivered = 0
    /\ last_ret = [what |-> "nocall", at |-> "none", n |-> 0, had |-> 0]
    /\ actual_port = 0
    /\ srv_open = FALSE
    /\ orig_fd = "none"
    /\ stdout = <<>>
    /\ stderr = <<>>
    /\ naccepted = 0
    /\ fd_closes = 0
    /\ at_stop = NoStop
    /\ proc = NoneProc
    /\ is_recording = FALSE
    /\ frame_count = 0
    /\ recording_path = NonePath
    /\ last_recv_time = 0 - 1
    /\ fractional_frames = 0
    /\ procs = <<>>
    /\ last_call = NoCall
    /\ pipe_failed = FALSE
    /\ started_since_stop = FALSE
    /\ last_true = 0

----------------------------------------------------------------------------
\* Other threads and the environment.

\* A stop request that flips the flag instead of clearing it.
stop_async_toggle ==
    /\ UNCHANGED vrvars
    /\ should_run' = ~should_run
    /\ at_stop' = IF at_stop = NoStop
                  THEN [nd |-> ndelivered, nl |-> Len(log), na |-> naccepted]
                  ELSE at_stop
    /\ UNCHANGED <<svars, stdout>>
    /\ UNCHANGED <<has_received, connection_closed, headless_buffer,
                   state_queue, queue_lock, gvars, tvars, rvars, evars, cvars,
                   hvars>>

\* SocketListener.stop_async.  The history notes how many messages had been
\* noted and delivered, and how many connections accepted, when it was first
\* called.
stop_async ==
    /\ UNCHANGED vrvars
    /\ should_run' = FALSE
    /\ at_stop' = IF at_stop = NoStop
                  THEN [nd |-> ndelivered, nl |-> Len(log), na |-> naccepted]
                  ELSE at_stop
    /\ UNCHANGED <<svars, stdout>>
    /\ UNCHANGED <<has_received, connection_closed, headless_buffer,
                   state_queue, queue_lock, gvars, tvars, rvars, evars, cvars,
                   hvars>>

\* SocketListener.enable_headless_buffer
enable_headless_buffer ==
    /\ UNCHANGED <<svars, stdout, at_stop, vrvars>>
    /\ headless_buffer' = TRUE
    /\ late_enable' = (late_enable \/ (pc # "idle" /\ ~headless_buffer))
    /\ UNCHANGED <<has_received, should_run, connection_closed, state_queue,
                   queue_lock, gvars, tvars, rvars, evars, cvars,
                   log, popped, stop_timeout, ndelivered, last_ret>>

\* A pop that returns the head of the queue and leaves it there.
pop_state_peek ==
    /\ UNCHANGED <<svars, stdout, at_stop, vrvars>>
    /\ queue_lock = "free"
    /\ IF state_queue # <<>>
       THEN /\ last_pop' = Head(state_queue)
            /\ popped' = Append(popped, Head(state_queue)[1].id)
            /\ UNCHANGED state_queue
       ELSE /\ last_pop' = NonePop
            /\ UNCHANGED <<state_queue, popped>>
    /\ UNCHANGED <<has_received, should_run, connection_closed,
                   headless_buffer, queue_lock, gvars, tvars, rvars, evars,
                   log, late_enable, stop_timeout, ndelivered, last_ret>>

\* SocketListener.pop_state: the whole critical section.
pop_state ==
    /\ UNCHANGED <<svars, stdout, at_stop, vrvars>>
    /\ queue_lock = "free"
    /\ IF state_queue # <<>>
       THEN /\ last_pop' = Head(state_queue)
            /\ state_queue' = Tail(state_queue)
            /\ popped' = Append(popped, Head(state_queue)[1].id)
       ELSE /\ last_pop' = NonePop
            /\ UNCHANGED <<state_queue, popped>>
    /\ UNCHANGED <<has_received, should_run, connection_closed,
                   headless_buffer, queue_lock, gvars, tvars, rvars, evars,
                   log, late_enable, stop_timeout, ndelivered, last_ret>>

\* What queue_size() returns: len(self._state_queue).
queue_size_result == Len(state_queue)

\* SocketListener.queue_size: the length is read under the queue lock.
queue_size ==
    /\ queue_lock = "free"
    /\ UNCHANGED vars

\* A live-mode consumer takes global_state_mutex; while it holds it, what it
\* reads is the value of `state`.
ReaderAcquire ==
    /\ UNCHANGED <<svars, stdout, at_stop, vrvars>>
    /\ global_state_mutex = "free"
    /\ global_state_mutex' = "reader"
    /\ UNCHANGED <<lvars, state, tvars, rvars, evars, cvars, hvars>>

ReaderRelease ==
    /\ UNCHANGED <<svars, stdout, at_stop, vrvars>>
    /\ global_state_mutex = "reader"
    /\ global_state_mutex' = "free"
    /\ UNCHANGED <<lvars, state, tvars, rvars, evars, cvars, hvars>>

\* The stream peer's next frame is on its way: 4 header bytes and n payload
\* bytes of some kind.  The listener can tell that a frame is there only
\* inside sock.recv, so the frame is taken to set out while the listener is
\* in _recv_exactly.
PeerSend ==
    /\ UNCHANGED <<svars, stdout, at_stop, vrvars>>
    /\ pc = "recv"
    /\ sock_open /\ conn = "open"
    /\ nsent < MaxMsgs
    /\ Consumed
    /\ \E n \in FrameLens, k \in Kinds :
          /\ n # ScenarioLen => k = "doc"
          /\ cur' = [id |-> nsent + 1, n |-> n, kind |-> k]
    /\ cpos' = 0
    /\ nsent' = nsent + 1
    /\ UNCHANGED <<lvars, gvars, tvars, rvars, cvars, hvars,
                   transport, now, conn, sock_open>>

\* The stream peer closes the connection after the bytes read so far.
PeerClose ==
    /\ UNCHANGED <<svars, stdout, at_stop, vrvars>>
    /\ pc = "recv"
    /\ sock_open /\ conn = "open"
    /\ conn' = "lost"
    /\ UNCHANGED <<lvars, gvars, tvars, rvars, cvars, hvars,
                   transport, now, cur, cpos, nsent, sock_open>>

----------------------------------------------------------------------------
\* The listener thread.

\* Locals of _recv_exactly are gone once its result has been taken; locals
\* of a loop iteration are dead once the next iteration begins.  The model
\* clears them there, so that states differing only in dead values coincide.
ClearRecv == /\ recv_n' = 0
             /\ buf' = <<>>
             /\ recv_for' = "hdr"
ClearIter == /\ j' = NoneJ
             /\ data' = <<>>
             /\ msg_len' = 0
             /\ recv_time' = 0

\* A start of the UDP loop that does not read the clock for the baseline.
run_without_baseline ==
    /\ UNCHANGED vrvars
    /\ pc = "idle"
    /\ transport' = "udp"
    /\ pc' = "udp_top"
    /\ \E p \in Ports :
          /\ actual_port' = p
          /\ stdout' = Append(stdout, [line |-> "created", port |-> p])
    /\ UNCHANGED <<srv_open, orig_fd, stderr, naccepted, fd_closes, at_stop>>
    /\ \E t \in Times : now' = t
    /\ UNCHANGED prev_recv_time
    /\ UNCHANGED <<lvars, gvars, recv_time, j, data, msg_len, rvars,
                   cur, cpos, nsent, conn, sock_open, cvars, hvars>>

\* run up to its loop: the socket is bound, actual_port is the port of
\* getsockname() and is printed, prev_recv_time = time.time().
run ==
    /\ UNCHANGED vrvars
    /\ pc = "idle"
    /\ transport' = "udp"
    /\ pc' = "udp_top"
    /\ \E p \in Ports :
          /\ actual_port' = p
          /\ stdout' = Append(stdout, [line |-> "created", port |-> p])
    /\ UNCHANGED <<srv_open, orig_fd, stderr, naccepted, fd_closes, at_stop>>
    /\ \E t \in Times : now' = t /\ prev_recv_time' = t
    /\ UNCHANGED <<lvars, gvars, recv_time, j, data, msg_len, rvars,
                   cur, cpos, nsent, conn, sock_open, cvars, hvars>>

\* run_from_fd: sock = socket.fromfd(fd, ...) duplicates the inherited
\* descriptor, which is still open.
run_from_fd ==
    /\ UNCHANGED vrvars
    /\ pc = "idle"
    /\ transport' = "stream"
    /\ pc' = "fd_close"
    /\ sock_open' = TRUE
    /\ orig_fd' = "open"
    /\ UNCHANGED <<lvars, gvars, prev_recv_time, recv_time, j, data, msg_len,
                   rvars, now, cur, cpos, nsent, conn, cvars, hvars,
                   actual_port, srv_open, stderr, naccepted, fd_closes,
                   stdout, at_stop>>

\* A start of the stream loop that leaves the inherited descriptor open.
FdCloseSkipped ==
    /\ UNCHANGED vrvars
    /\ pc = "fd_close"
    /\ UNCHANGED <<orig_fd, fd_closes>>
    /\ pc' = "top"
    /\ \E t \in Times : now' = t /\ prev_recv_time' = t
    /\ UNCHANGED <<lvars, gvars, recv_time, j, data, msg_len, rvars,
                   transport, cur, cpos, nsent, conn, sock_open, cvars, hvars,
                   actual_port, srv_open, stderr, naccepted, stdout, at_stop>>

\* run_from_fd: os.close(fd), sock.settimeout(0.5), then _run_stream_loop up
\* to its loop.
FdClose ==
    /\ UNCHANGED vrvars
    /\ pc = "fd_close"
    /\ orig_fd' = "closed"
    /\ fd_closes' = fd_closes + 1
    /\ pc' = "top"
    /\ \E t \in Times : now' = t /\ prev_recv_time' = t
    /\ UNCHANGED <<lvars, gvars, recv_time, j, data, msg_len, rvars,
                   transport, cur, cpos, nsent, conn, sock_open, cvars, hvars,
                   actual_port, srv_open, stderr, naccepted, stdout, at_stop>>

\* A start that prints actual_port before it has been resolved.
run_from_tcp_unresolved ==
    /\ UNCHANGED vrvars
    /\ pc = "idle"
    /\ transport' = "stream"
    /\ pc' = "accept"
    /\ srv_open' = TRUE
    /\ stdout' = Append(stdout, [line |-> "TCP_PORT", port |-> actual_port])
    /\ UNCHANGED <<actual_port, orig_fd, stderr, naccepted, fd_closes, at_stop>>
    /\ UNCHANGED <<lvars, gvars, prev_recv_time, recv_time, j, data, msg_len,
                   rvars, now, cur, cpos, nsent, conn, sock_open, cvars,
                   hvars>>

\* run_from_tcp up to srv.accept(): the listening socket is bound,
\* actual_port is the port of getsockname() and the line TCP_PORT:<port> is
\* printed on standard output.
run_from_tcp ==
    /\ UNCHANGED vrvars
    /\ pc = "idle"
    /\ transport' = "stream"
    /\ pc' = "accept"
    /\ srv_open' = TRUE
    /\ \E p \in Ports :
          /\ actual_port' = p
          /\ stdout' = Append(stdout, [line |-> "TCP_PORT", port |-> p])
    /\ UNCHANGED <<orig_fd, stderr, naccepted, fd_closes, at_stop>>
    /\ UNCHANGED <<lvars, gvars, prev_recv_time, recv_time, j, data, msg_len,
                   rvars, now, cur, cpos, nsent, conn, sock_open, cvars,
                   hvars>>

\* An accept that leaves the listening socket open.
AcceptOkKeepsListening ==
    /\ UNCHANGED vrvars
    /\ pc = "accept"
    /\ pc' = "top"
    /\ naccepted' = naccepted + 1
    /\ UNCHANGED srv_open
    /\ UNCHANGED <<actual_port, orig_fd, stderr, fd_closes, stdout, at_stop>>
    /\ \E t \in Times : now' = t /\ prev_recv_time' = t
    /\ sock_open' = TRUE
    /\ UNCHANGED <<lvars, gvars, recv_time, j, data, msg_len, rvars,
                   transport, cur, cpos, nsent, conn, cvars, hvars>>

\* run_from_tcp: srv.accept() returns a connection; srv.close(), the
\* timeout and the receive buffer of the connection are set (a failure of
\* the latter is ignored); _run_stream_loop up to its loop.
AcceptOk ==
    /\ UNCHANGED vrvars
    /\ pc = "accept"
    /\ pc' = "top"
    /\ naccepted' = naccepted + 1
    /\ srv_open' = FALSE
    /\ UNCHANGED <<actual_port, orig_fd, stderr, fd_closes, stdout, at_stop>>
    /\ \E t \in Times : now' = t /\ prev_recv_time' = t
    /\ sock_open' = TRUE
    /\ UNCHANGED <<lvars, gvars, recv_time, j, data, msg_len, rvars,
                   transport, cur, cpos, nsent, conn, cvars, hvars>>

\* An accept timeout after which accept is called again.
AcceptTimeoutRetries ==
    /\ UNCHANGED vrvars
    /\ pc = "accept"
    /\ pc' = "accept"
    /\ stderr' = Append(stderr, [line |-> "accept_timeout"])
    /\ UNCHANGED srv_open
    /\ UNCHANGED <<actual_port, orig_fd, naccepted, fd_closes, stdout,
                   at_stop>>
    /\ UNCHANGED <<lvars, gvars, prev_recv_time, recv_time, j, data, msg_len,
                   rvars, evars, cvars, hvars>>

\* run_from_tcp: srv.accept() times out; the error is printed on standard
\* error, srv.close(), and the method returns.
AcceptTimeout ==
    /\ UNCHANGED vrvars
    /\ pc = "accept"
    /\ pc' = "done"
    /\ stderr' = Append(stderr, [line |-> "accept_timeout"])
    /\ srv_open' = FALSE
    /\ UNCHANGED <<actual_port, orig_fd, naccepted, fd_closes, stdout,
                   at_stop>>
    /\ UNCHANGED <<lvars, gvars, prev_recv_time, recv_time, j, data, msg_len,
                   rvars, evars, cvars, hvars>>

\* A loop test that does not look at the stop flag.
UdpTopIgnoresStop ==
    /\ UNCHANGED <<svars, stdout, at_stop, vrvars>>
    /\ pc = "udp_top"
    /\ pc' = "udp_recv"
    /\ UNCHANGED <<lvars, gvars, prev_recv_time, recv_time, j, data, msg_len,
                   rvars, evars, cvars, hvars>>

\* run: `while self.should_run`, then the call of sock.recvfrom.
UdpTop ==
    /\ UNCHANGED <<svars, stdout, at_stop, vrvars>>
    /\ pc = "udp_top"
    /\ pc' = IF should_run THEN "udp_recv" ELSE "done"
    /\ UNCHANGED <<lvars, gvars, prev_recv_time, recv_time, j, data, msg_len,
                   rvars, evars, cvars, hvars>>

\* run: recvfrom returns a datagram; has_received is set.
UdpRecvData ==
    /\ UNCHANGED <<svars, stdout, at_stop, vrvars>>
    /\ pc = "udp_recv"
    /\ nsent < MaxMsgs
    /\ \E k \in Kinds :
          LET m == [id |-> nsent + 1, n |-> ScenarioLen, kind |-> k]
          IN  /\ cur' = m
              /\ data' = PayloadOf(m)
    /\ cpos' = ScenarioLen
    /\ nsent' = nsent + 1
    /\ has_received' = TRUE
    /\ pc' = "decode"
    /\ UNCHANGED <<should_run, connection_closed, headless_buffer,
                   state_queue, queue_lock, gvars, prev_recv_time, recv_time,
                   j, msg_len, rvars, transport, now, conn,
                   sock_open, cvars, hvars>>

\* run: recvfrom raises (the poll timeout or anything else): `continue`.
UdpRecvFail ==
    /\ UNCHANGED <<svars, stdout, at_stop, vrvars>>
    /\ pc = "udp_recv"
    /\ pc' = "udp_top"
    /\ stop_timeout' = IF ~should_run /\ stop_timeout = "none"
                       THEN "udp" ELSE stop_timeout
    /\ UNCHANGED <<lvars, gvars, prev_recv_time, recv_time, j, data, msg_len,
                   rvars, evars, cvars, log, popped, late_enable, ndelivered,
                   last_ret>>

\* A loop exit that closes the socket and leaves the flag as it was.
CloseWithoutFlag(c) ==
    /\ sock_open' = FALSE
    /\ UNCHANGED connection_closed
    /\ pc' = "done"
    /\ cur' = NoMsg
    /\ cpos' = 0
    /\ conn' = IF c = "open" THEN "shut" ELSE "lost"

\* _run_stream_loop after its loop: sock.close(); connection_closed = True.
\* Bytes of the peer that were not read are gone with the socket.  c is the
\* state of the connection at that moment: a connection the peer still had
\* open is from then on shut from this side, a lost one stays lost.
Close(c) ==
    /\ sock_open' = FALSE
    /\ connection_closed' = TRUE
    /\ pc' = "done"
    /\ cur' = NoMsg
    /\ cpos' = 0
    /\ conn' = IF c = "open" THEN "shut" ELSE "lost"

\* A loop that tests the stop flag only after its first iteration.
StreamTopDoWhile ==
    /\ UNCHANGED <<svars, stdout, at_stop, vrvars>>
    /\ pc = "top"
    /\ IF should_run \/ last_ret.what = "nocall"
       THEN /\ pc' = "recv"
            /\ recv_n' = 4
            /\ buf' = <<>>
            /\ recv_for' = "hdr"
            /\ UNCHANGED <<sock_open, connection_closed, cur, cpos, conn>>
       ELSE /\ Close(conn)
            /\ UNCHANGED rvars
    /\ UNCHANGED <<has_received, should_run, headless_buffer, state_queue,
                   queue_lock, gvars, prev_recv_time, recv_time, j, data,
                   msg_len, transport, now, nsent, cvars, hvars>>

\* _run_stream_loop: `while self.should_run`, then _recv_exactly(sock, 4);
\* or the loop ends.
StreamTop ==
    /\ UNCHANGED <<svars, stdout, at_stop, vrvars>>
    /\ pc = "top"
    /\ IF should_run
       THEN /\ pc' = "recv"
            /\ recv_n' = 4
            /\ buf' = <<>>
            /\ recv_for' = "hdr"
            /\ UNCHANGED <<sock_open, connection_closed, cur, cpos, conn>>
       ELSE /\ Close(conn)
            /\ UNCHANGED rvars
    /\ UNCHANGED <<has_received, should_run, headless_buffer, state_queue,
                   queue_lock, gvars, prev_recv_time, recv_time, j, data,
                   msg_len, transport, now, nsent, cvars, hvars>>

\* _run_stream_loop: what follows the header read (lines 162-179), r being
\* the result of _recv_exactly, c and p the state of the connection and the
\* peer's read offset after it.  An empty frame: `continue`.  An oversized
\* frame: _recv_exactly(sock, msg_len) to drain it.  Otherwise
\* _recv_exactly(sock, msg_len) for the payload.  struct.unpack raises
\* struct.error on a string that is not 4 bytes long, which nothing catches.
HdrRet(r, c, p) ==
    IF ~r.ok
    THEN /\ Close(c)
         /\ ClearRecv
         /\ UNCHANGED <<has_received, msg_len, data, log>>
    ELSE IF BufLen(r.bytes) # 4
    THEN /\ pc' = "crashed"
         /\ conn' = c
         /\ cpos' = p
         /\ ClearRecv
         /\ UNCHANGED <<has_received, connection_closed, sock_open, msg_len,
                        data, log, cur>>
    ELSE LET len == Unpack(r.bytes)
         IN  /\ conn' = c
             /\ cpos' = p
             /\ UNCHANGED <<has_received, connection_closed, sock_open,
                            data, cur>>
             /\ IF IsEmpty(len)
                THEN /\ pc' = "top"
                     /\ ClearRecv
                     /\ log' = Append(log, [id |-> cur.id,
                                            kind |-> TrueKind(cur), t |-> 0])
                     /\ UNCHANGED msg_len
                ELSE /\ pc' = "recv"
                     /\ msg_len' = len
                     /\ recv_n' = IF Oversized(len) THEN DrainLen(len) ELSE len
                     /\ buf' = <<>>
                     /\ recv_for' = IF Oversized(len) THEN "drain" ELSE "pay"
                     /\ UNCHANGED log

\* _run_stream_loop: the drain of an oversized frame returned; its result is
\* not looked at: `continue` (lines 176-177).
DrainRet(r, c, p) ==
    /\ pc' = "top"
    /\ conn' = c
    /\ cpos' = p
    /\ log' = IF r.ok
              THEN Append(log, [id |-> cur.id, kind |-> TrueKind(cur), t |-> 0])
              ELSE log
    /\ ClearRecv
    /\ msg_len' = 0
    /\ UNCHANGED <<has_received, connection_closed, sock_open, data, cur>>

\* _run_stream_loop: the payload read returned (lines 179-183).
PayRet(r, c, p) ==
    IF ~r.ok
    THEN /\ Close(c)
         /\ ClearRecv
         /\ msg_len' = 0
         /\ UNCHANGED <<has_received, data, log>>
    ELSE /\ data' = r.bytes
         /\ has_received' = TRUE
         /\ pc' = "decode"
         /\ conn' = c
         /\ cpos' = p
         /\ ClearRecv
         /\ UNCHANGED <<connection_closed, sock_open, msg_len, log, cur>>

\* _recv_exactly returns r to the call site it was entered from.  The
\* history notes what was returned (bytes, or None for the reason w), to
\* which call site, how many bytes were asked for and how many the call
\* returned or, returning None, had collected.
Return(r, c, p, w) ==
    /\ last_ret' = [what |-> IF r.ok THEN "bytes" ELSE w,
                    at |-> recv_for,
                    n |-> recv_n,
                    had |-> IF r.ok THEN BufLen(r.bytes) ELSE BufLen(buf)]
    /\ CASE recv_for = "hdr" -> HdrRet(r, c, p)
         [] recv_for = "pay" -> PayRet(r, c, p)
         [] OTHER -> DrainRet(r, c, p)

\* _recv_exactly: `while len(buf) < n`: sock.recv(n - len(buf)) returns a
\* chunk, buf.extend(chunk); with n bytes collected, return bytes(buf).
RecvChunk ==
    /\ pc = "recv"
    /\ IF BufLen(buf) >= recv_n
       THEN Return([ok |-> TRUE, bytes |-> buf], conn, cpos, "bytes")
       ELSE /\ conn = "open" /\ ~Consumed
            /\ \E c \in ChunkSizes(cur, cpos, Want(recv_n, BufLen(buf))) :
                  LET b == Extend(buf, [id |-> cur.id, lo |-> cpos,
                                        hi |-> cpos + c])
                  IN  IF BufLen(b) >= recv_n
                      THEN Return([ok |-> TRUE, bytes |-> b], conn, cpos + c,
                                  "bytes")
                      ELSE /\ buf' = b
                           /\ cpos' = cpos + c
                           /\ UNCHANGED <<pc, has_received, connection_closed,
                                          sock_open, msg_len, data, recv_n,
                                          recv_for, log, cur, conn, last_ret>>
    /\ UNCHANGED <<keepvars, stop_timeout>>

\* _recv_exactly: socket.timeout; retried unless the stop flag is set.  The
\* history notes the first call site at which a poll timed out with the stop
\* flag set.
RecvTimeout ==
    /\ pc = "recv"
    /\ BufLen(buf) < recv_n
    /\ conn = "open"
    /\ stop_timeout' = IF ~should_run /\ stop_timeout = "none"
                       THEN recv_for ELSE stop_timeout
    /\ IF TimeoutAborts(should_run)
       THEN Return(NoneRet, conn, cpos, "timeout")
       ELSE UNCHANGED retvars
    /\ UNCHANGED keepvars

\* _recv_exactly: recv returns b"" (the peer closed): return None.
RecvEOF ==
    /\ pc = "recv"
    /\ BufLen(buf) < recv_n
    /\ conn = "lost"
    /\ Return(OnEof(buf), conn, cpos, "eof")
    /\ UNCHANGED <<keepvars, stop_timeout>>

\* _recv_exactly: recv raises an OSError that is no timeout: return None.
\* The connection is lost: no later recv on it returns data.
RecvOSError ==
    /\ pc = "recv"
    /\ BufLen(buf) < recv_n
    /\ Return(NoneRet, "lost", cpos, "oserror")
    /\ UNCHANGED <<keepvars, stop_timeout>>

\* json.loads(data.decode("utf-8")), recv_time = time.time() and the choice
\* of the sink (run lines 57-74, _run_stream_loop lines 184-193).  The
\* history notes the message and the time at which it was decoded.
DecodeStep ==
    /\ UNCHANGED vrvars
    /\ pc = "decode"
    /\ \E t \in Times :
        LET k == Decode(data)
            next == DecodePc(k)
        IN  /\ now' = t
            /\ log' = Append(log, [id |-> cur.id, kind |-> TrueKind(cur),
                                   t |-> t])
            /\ pc' = next
            /\ stdout' = IF k = "badjson"
                         THEN Append(stdout, Diagnostic(transport, ErrPos(data),
                                                        BufLen(data)))
                         ELSE stdout
            /\ IF next \in {"q_lock", "m_lock"}
               THEN /\ j' = [id |-> cur.id, kind |-> k]
                    /\ recv_time' = t
                    /\ data' = <<>>
                    /\ msg_len' = 0
               ELSE ClearIter
    /\ UNCHANGED <<lvars, gvars, prev_recv_time, rvars, transport, cur, cpos,
                   nsent, conn, sock_open,
                   cvars, popped, late_enable, stop_timeout, ndelivered,
                   last_ret, svars, at_stop>>

\* `with self._queue_lock:` entered.
QLock ==
    /\ UNCHANGED <<svars, stdout, at_stop, vrvars>>
    /\ pc = "q_lock"
    /\ queue_lock = "free"
    /\ queue_lock' = "listener"
    /\ pc' = "q_append"
    /\ UNCHANGED <<has_received, should_run, connection_closed,
                   headless_buffer, state_queue, gvars, prev_recv_time,
                   recv_time, j, data, msg_len, rvars, evars, cvars, hvars>>

\* An append at the left end of the deque.
QAppendLeft ==
    /\ UNCHANGED <<svars, stdout, at_stop, vrvars>>
    /\ pc = "q_append"
    /\ state_queue' = <<<<j, recv_time,
                          Interval(recv_time, prev_recv_time)>>>>
                      \o state_queue
    /\ queue_lock' = "free"
    /\ prev_recv_time' = recv_time
    /\ ndelivered' = ndelivered + 1
    /\ pc' = TopPc
    /\ ClearIter
    /\ UNCHANGED <<has_received, should_run, connection_closed,
                   headless_buffer, gvars, rvars,
                   evars, cvars, log, popped, late_enable, stop_timeout,
                   last_ret>>

\* An append that leaves the `with` block without releasing the queue lock.
QAppendKeepsLock ==
    /\ UNCHANGED <<svars, stdout, at_stop, vrvars>>
    /\ pc = "q_append"
    /\ state_queue' = Append(state_queue,
                             <<j, recv_time,
                               Interval(recv_time, prev_recv_time)>>)
    /\ UNCHANGED queue_lock
    /\ prev_recv_time' = recv_time
    /\ ndelivered' = ndelivered + 1
    /\ pc' = TopPc
    /\ ClearIter
    /\ UNCHANGED <<has_received, should_run, connection_closed,
                   headless_buffer, gvars, rvars,
                   evars, cvars, log, popped, late_enable, stop_timeout,
                   last_ret>>

\* self._state_queue.append((j, recv_time, recv_time - prev_recv_time)), the
\* lock released, then prev_recv_time = recv_time.
QAppend ==
    /\ UNCHANGED <<svars, stdout, at_stop, vrvars>>
    /\ pc = "q_append"
    /\ state_queue' = Append(state_queue,
                             <<j, recv_time,
                               Interval(recv_time, prev_recv_time)>>)
    /\ queue_lock' = "free"
    /\ prev_recv_time' = recv_time
    /\ ndelivered' = ndelivered + 1
    /\ pc' = TopPc
    /\ ClearIter
    /\ UNCHANGED <<has_received, should_run, connection_closed,
                   headless_buffer, gvars, rvars,
                   evars, cvars, log, popped, late_enable, stop_timeout,
                   last_ret>>

\* `with state_manager.global_state_mutex:` entered.
MLock ==
    /\ UNCHANGED <<svars, stdout, at_stop, vrvars>>
    /\ pc = "m_lock"
    /\ global_state_mutex = "free"
    /\ global_state_mutex' = "listener"
    /\ pc' = "m_read"
    /\ UNCHANGED <<lvars, state, prev_recv_time, recv_time, j, data, msg_len,
                   rvars, evars, cvars, hvars>>

\* A read_from_json after which the mutex is released before the times are
\* written.
ReadFromJsonThenRelease ==
    /\ UNCHANGED <<svars, stdout, at_stop, vrvars>>
    /\ pc = "m_read"
    /\ IF j.kind = "doc"
       THEN state' = [state EXCEPT !.doc = j.id]
       ELSE \E d \in {state.doc, PartialDoc} :
               state' = [state EXCEPT !.doc = d]
    /\ pc' = "m_time"
    /\ global_state_mutex' = "free"
    /\ UNCHANGED <<lvars, prev_recv_time, recv_time, j,
                   data, msg_len, rvars, evars, cvars, hvars>>

\* state.read_from_json(j) inside try/except: the state takes the document,
\* or the call raises and leaves the document as it was or partly read.
ReadFromJson ==
    /\ UNCHANGED <<svars, stdout, at_stop, vrvars>>
    /\ pc = "m_read"
    /\ IF j.kind = "doc"
       THEN state' = [state EXCEPT !.doc = j.id]
       ELSE \E d \in {state.doc, PartialDoc} :
               state' = [state EXCEPT !.doc = d]
    /\ pc' = "m_time"
    /\ UNCHANGED <<lvars, global_state_mutex, prev_recv_time, recv_time, j,
                   data, msg_len, rvars, evars, cvars, hvars>>

\* state.recv_time = recv_time
SetRecvTime ==
    /\ UNCHANGED <<svars, stdout, at_stop, vrvars>>
    /\ pc = "m_time"
    /\ state' = [state EXCEPT !.recv_time = recv_time]
    /\ pc' = "m_interval"
    /\ UNCHANGED <<lvars, global_state_mutex, prev_recv_time, recv_time, j,
                   data, msg_len, rvars, evars, cvars, hvars>>

\* A delivery that moves the baseline only when read_from_json succeeded.
SetRecvIntervalDocOnly ==
    /\ UNCHANGED <<svars, stdout, at_stop, vrvars>>
    /\ pc = "m_interval"
    /\ state' = [state EXCEPT !.recv_interval =
                                  Interval(recv_time, prev_recv_time)]
    /\ global_state_mutex' = "free"
    /\ prev_recv_time' = IF j.kind = "doc" THEN recv_time
                         ELSE prev_recv_time
    /\ ndelivered' = ndelivered + 1
    /\ pc' = TopPc
    /\ ClearIter
    /\ UNCHANGED <<lvars, rvars, evars, cvars,
                   log, popped, late_enable, stop_timeout, last_ret>>

\* state.recv_interval = recv_time - prev_recv_time, the mutex released, then
\* prev_recv_time = recv_time.
SetRecvInterval ==
    /\ UNCHANGED <<svars, stdout, at_stop, vrvars>>
    /\ pc = "m_interval"
    /\ state' = [state EXCEPT !.recv_interval =
                                  Interval(recv_time, prev_recv_time)]
    /\ global_state_mutex' = "free"
    /\ prev_recv_time' = recv_time
    /\ ndelivered' = ndelivered + 1
    /\ pc' = TopPc
    /\ ClearIter
    /\ UNCHANGED <<lvars, rvars, evars, cvars,
                   log, popped, late_enable, stop_timeout, last_ret>>

----------------------------------------------------------------------------
\* The listener thread is started on one of the three transports.
Starts ==
    \/ run
    \/ run_from_fd
    \/ run_from_tcp

\* The steps of the listener thread and of its peer that do not depend on
\* the sink in use.
Transport ==
    \/ FdClose
    \/ AcceptOk
    \/ AcceptTimeout
    \/ UdpTop
    \/ UdpRecvData
    \/ UdpRecvFail
    \/ StreamTop
    \/ RecvChunk
    \/ RecvTimeout
    \/ RecvEOF
    \/ RecvOSError
    \/ DecodeStep
    \/ PeerSend
    \/ PeerClose
    \/ stop_async

\* The live sink and its readers.
Live ==
    \/ MLock
    \/ ReadFromJson
    \/ SetRecvTime
    \/ SetRecvInterval
    \/ ReaderAcquire
    \/ ReaderRelease

\* The queue and its consumer.
Buffered ==
    \/ QLock
    \/ QAppend
    \/ pop_state
    \/ queue_size

\* Every operation, in any order: enable_headless_buffer may be called at any
\* moment, before or while the loop runs.
Next ==
    \/ Starts
    \/ Transport
    \/ Live
    \/ Buffered
    \/ enable_headless_buffer

Spec == Init /\ [][Next]_vars

\* The live deployment: enable_headless_buffer is never called, nobody pops.
NextLive ==
    \/ Starts
    \/ Transport
    \/ Live

SpecLive == Init /\ [][NextLive]_vars

\* The recording deployment: enable_headless_buffer is called after
\* construction and before the listener thread is started.
NextHeadless ==
    \/ (enable_headless_buffer /\ pc = "idle" /\ ~headless_buffer)
    \/ (Starts /\ headless_buffer)
    \/ Transport
    \/ Buffered

SpecHeadless == Init /\ [][NextHeadless]_vars

\* Either deployment: the sink is chosen before the listener thread starts
\* and stays the same.
NextModes ==
    \/ (enable_headless_buffer /\ pc = "idle" /\ ~headless_buffer)
    \/ Starts
    \/ Transport
    \/ Live
    \/ Buffered

SpecModes == Init /\ [][NextModes]_vars

\* The steps of the listener thread.
Listener ==
    \/ FdClose
    \/ AcceptOk
    \/ AcceptTimeout
    \/ UdpTop
    \/ UdpRecvData
    \/ UdpRecvFail
    \/ StreamTop
    \/ RecvChunk
    \/ RecvTimeout
    \/ RecvEOF
    \/ RecvOSError
    \/ DecodeStep
    \/ QLock
    \/ QAppend
    \/ MLock
    \/ ReadFromJson
    \/ SetRecvTime
    \/ SetRecvInterval

\* Either deployment with a listener thread that keeps running: every
\* blocking call returns in the end (sock.recv and sock.recvfrom with data,
\* end of stream, an error or the 0.5 s poll timeout, accept with a
\* connection or its 30 s timeout), a reader of the live slot releases the
\* mutex, and a listener that keeps asking for the mutex gets it.
SpecFair ==
    /\ SpecModes
    /\ WF_vars(Listener)
    /\ WF_vars(ReaderRelease)
    /\ SF_vars(MLock)
----------------------------------------------------------------------------
\* src/src/video_recorder.py (VideoRecorder).  Its methods are called one
\* after the other on one object; an encoder process is a handle number, its
\* entry in procs says whether its input is still open and how it ended.

\* What last_call holds after a call: the method, the fields as they were
\* when it was called, its argument, the frames it wrote to the pipe and what
\* it returned.
Call(op, arg, wrote, ret) ==
    [op |-> op, rec |-> is_recording, proc |-> proc, fc |-> frame_count,
     path |-> recording_path, ff |-> fractional_frames,
     mem |-> last_recv_time, since |-> started_since_stop, lt |-> last_true,
     arg |-> arg, wrote |-> wrote, ret |-> ret]

\* Arguments of has_new_data: negative, zero and the readings of the clock.
RecvTimes == (0 - 1)..MaxTime

\* delta_time * FPS in half frames: nothing or less, half a frame, one frame
\* and a half.
Deltas == {0 - 1, 0, 1, 3}

\* A test that lets recv_time = 0 through.
NoDataStrict(rt) == rt < 0
\* has_new_data: `if recv_time <= 0`
NoData(rt) == rt <= 0

\* write_frame and calc_frame_count: the frames a state of duration d
\* produces when ff half frames are left over from earlier calls,
\* max(int(ff + d), 1), or 1 for d <= 0; and what is left over afterwards.
NumFrames(ff, d) == IF d > 0 THEN Max((ff + d) \div 2, 1) ELSE 1
FracAfter(ff, d) == IF d > 0 THEN (ff + d) % 2 ELSE ff

\* VideoRecorder.start: nothing while recording; nothing when ffmpeg is not
\* found; recording_path is set and Popen either raises OSError (_proc stays
\* None) or gives a process, with which the recording begins.
start ==
    /\ UNCHANGED lsvars
    /\ \/ /\ is_recording
          /\ last_call' = Call("start_ignored", 0, 0, FALSE)
          /\ UNCHANGED <<proc, is_recording, frame_count, recording_path,
                         fractional_frames, procs, pipe_failed,
                         started_since_stop>>
       \/ /\ ~is_recording
          /\ last_call' = Call("start_no_ffmpeg", 0, 0, FALSE)
          /\ UNCHANGED <<proc, is_recording, frame_count, recording_path,
                         fractional_frames, procs, pipe_failed,
                         started_since_stop>>
       \/ /\ ~is_recording
          /\ \E f \in Paths : recording_path' = f
          /\ proc' = NoneProc
          /\ last_call' = Call("start_popen_error", 0, 0, FALSE)
          /\ UNCHANGED <<is_recording, frame_count, fractional_frames, procs,
                         pipe_failed, started_since_stop>>
       \/ /\ ~is_recording
          /\ Len(procs) < MaxProcs
          /\ \E f \in Paths : recording_path' = f
          /\ procs' = Append(procs, [stdin |-> "open", ended |-> "no"])
          /\ proc' = Len(procs) + 1
          /\ is_recording' = TRUE
          /\ frame_count' = 0
          /\ fractional_frames' = 0
          /\ pipe_failed' = FALSE
          /\ started_since_stop' = TRUE
          /\ last_call' = Call("start_ok", 0, 0, TRUE)
    /\ UNCHANGED <<last_recv_time, last_true>>

\* VideoRecorder.stop: nothing unless recording; otherwise the input of the
\* process is closed (an error of the close is ignored), the process is
\* waited for, or killed after 30 s, and the fields are reset.
stop ==
    /\ UNCHANGED lsvars
    /\ last_call' = Call("stop", 0, 0, is_recording)
    /\ started_since_stop' = FALSE
    /\ IF ~is_recording
       THEN UNCHANGED <<proc, is_recording, frame_count, recording_path,
                        procs>>
       ELSE /\ is_recording' = FALSE
            /\ IF proc # NoneProc
               THEN \E how \in {"waited", "killed"} :
                       procs' = [procs EXCEPT
                                   ![proc] = [stdin |-> "closed",
                                              ended |-> how]]
               ELSE UNCHANGED procs
            /\ proc' = NoneProc
            /\ recording_path' = NonePath
            /\ frame_count' = 0
    /\ UNCHANGED <<last_recv_time, fractional_frames, pipe_failed, last_true>>

\* VideoRecorder.has_new_data(rt).  The history keeps the argument of the
\* last call that returned True.
has_new_data ==
    /\ UNCHANGED lsvars
    /\ \E rt \in RecvTimes :
          IF NoData(rt)
          THEN /\ last_call' = Call("has_new_data", rt, 0, FALSE)
               /\ UNCHANGED <<last_recv_time, last_true>>
          ELSE IF rt # last_recv_time
          THEN /\ last_recv_time' = rt
               /\ last_true' = rt
               /\ last_call' = Call("has_new_data", rt, 0, TRUE)
          ELSE /\ last_call' = Call("has_new_data", rt, 0, FALSE)
               /\ UNCHANGED <<last_recv_time, last_true>>
    /\ UNCHANGED <<proc, is_recording, frame_count, recording_path,
                   fractional_frames, procs, pipe_failed, started_since_stop>>

\* VideoRecorder.calc_frame_count(d)
calc_frame_count ==
    /\ UNCHANGED lsvars
    /\ \E d \in Deltas :
          /\ fractional_frames' = FracAfter(fractional_frames, d)
          /\ last_call' = Call("calc_frame_count", d,
                               NumFrames(fractional_frames, d), FALSE)
    /\ UNCHANGED <<proc, is_recording, frame_count, recording_path,
                   last_recv_time, procs, pipe_failed, started_since_stop,
                   last_true>>

\* A write whose failure drops the process handle and leaves is_recording
\* set.
write_single_frame_keeps_flag ==
    /\ UNCHANGED lsvars
    /\ IF ~is_recording \/ proc = NoneProc
       THEN /\ last_call' = Call("write_single_frame", 0, 0, FALSE)
            /\ UNCHANGED <<proc, is_recording, frame_count, pipe_failed>>
       ELSE /\ frame_count < MaxFrames
            /\ \/ /\ frame_count' = frame_count + 1
                  /\ last_call' = Call("write_single_frame", 0, 1, TRUE)
                  /\ UNCHANGED <<proc, is_recording, pipe_failed>>
               \/ /\ proc' = NoneProc
                  /\ pipe_failed' = TRUE
                  /\ last_call' = Call("write_single_frame", 0, 0, FALSE)
                  /\ UNCHANGED <<frame_count, is_recording>>
    /\ UNCHANGED <<recording_path, last_recv_time, fractional_frames, procs,
                   started_since_stop, last_true>>

\* VideoRecorder.write_single_frame: nothing unless recording with a
\* process; otherwise the frame is written and counted, or the write raises
\* BrokenPipeError or OSError and the recording is given up.
write_single_frame ==
    /\ UNCHANGED lsvars
    /\ IF ~is_recording \/ proc = NoneProc
       THEN /\ last_call' = Call("write_single_frame", 0, 0, FALSE)
            /\ UNCHANGED <<proc, is_recording, frame_count, pipe_failed>>
       ELSE /\ frame_count < MaxFrames
            /\ \/ /\ frame_count' = frame_count + 1
                  /\ last_call' = Call("write_single_frame", 0, 1, TRUE)
                  /\ UNCHANGED <<proc, is_recording, pipe_failed>>
               \/ /\ is_recording' = FALSE
                  /\ proc' = NoneProc
                  /\ pipe_failed' = TRUE
                  /\ last_call' = Call("write_single_frame", 0, 0, FALSE)
                  /\ UNCHANGED frame_count
    /\ UNCHANGED <<recording_path, last_recv_time, fractional_frames, procs,
                   started_since_stop, last_true>>

\* VideoRecorder.write_frame(pixels, d): nothing unless recording with a
\* process; otherwise the number of frames is worked out, and they are
\* written and counted one by one, all of them or up to the write that
\* raises, after which the recording is given up.
write_frame ==
    /\ UNCHANGED lsvars
    /\ \E d \in Deltas :
          IF ~is_recording \/ proc = NoneProc
          THEN /\ last_call' = Call("write_frame", d, 0, FALSE)
               /\ UNCHANGED <<proc, is_recording, frame_count,
                              fractional_frames, pipe_failed>>
          ELSE LET num_frames == NumFrames(fractional_frames, d)
               IN  /\ frame_count + num_frames <= MaxFrames
                   /\ fractional_frames' = FracAfter(fractional_frames, d)
                   /\ \E k \in 0..num_frames :
                         /\ frame_count' = frame_count + k
                         /\ last_call' = Call("write_frame", d, k,
                                              k = num_frames)
                         /\ IF k = num_frames
                            THEN UNCHANGED <<proc, is_recording, pipe_failed>>
                            ELSE /\ is_recording' = FALSE
                                 /\ proc' = NoneProc
                                 /\ pipe_failed' = TRUE
    /\ UNCHANGED <<recording_path, last_recv_time, procs, started_since_stop,
                   last_true>>

\* Every sequence of calls on one recorder.
NextRecorder ==
    \/ start
    \/ stop
    \/ has_new_data
    \/ calc_frame_count
    \/ write_single_frame
    \/ write_frame

SpecRecorder == Init /\ [][NextRecorder]_vars
----------------------------------------------------------------------------
\* The history, as the properties read it.

\* Payloads json.loads returns a value for (the decode did not raise), and
\* among them those whose value is a document rather than None.
JsonValues == {"doc", "badschema", "null"}
Documents == {"doc", "badschema"}
\* Payloads on which the decode raises.
Undecodable == {"badjson", "badutf8"}

\* Indices of the history entries of the given kinds, the greatest of a set of
\* indices, and the entry of a message id.
Of(kinds) == {i \in 1..Len(log) : log[i].kind \in kinds}
Last(S) == CHOOSE x \in S : \A y \in S : y <= x
IdxOf(id) == CHOOSE i \in 1..Len(log) : log[i].id = id
\* Entries of the given kinds before entry i.
Before(i, kinds) == {p \in Of(kinds) : p < i}

\* Ids of the messages of the given kinds, in the order they were decoded.
RECURSIVE IdsOf(_, _)
IdsOf(l, kinds) ==
    IF l = <<>> THEN <<>>
    ELSE (IF Head(l).kind \in kinds THEN <<Head(l).id>> ELSE <<>>)
         \o IdsOf(Tail(l), kinds)

\* Ids of the queued messages, oldest first, and of the message the listener
\* is about to append.
QueuedIds == [i \in 1..Len(state_queue) |-> state_queue[i][1].id]
InFlightIds == IF pc \in {"q_lock", "q_append"} THEN <<j.id>> ELSE <<>>

\* Message id has been delivered to a sink.
DeliveredId(id) ==
    \/ state.doc = id
    \/ \E q \in 1..Len(state_queue) : state_queue[q][1].id = id
    \/ \E q \in 1..Len(popped) : popped[q] = id

\* What pop_state has returned, what is queued and what is being appended
\* are together the messages of the given kinds, each once, in decode order;
\* and the last non-None result of pop_state is the last message popped.
PoppedInOrder(kinds) ==
    /\ popped \o QueuedIds \o InFlightIds = IdsOf(log, kinds)
    /\ last_pop # NonePop => /\ popped # <<>>
                             /\ last_pop[1].id = popped[Len(popped)]

\* Every queued interval, and the interval in the live slot once a delivery
\* is complete, is the decode time of its message minus the decode time of
\* the nearest earlier message of the given kinds (if there is one).
IntervalSince(kinds) ==
    /\ \A q \in 1..Len(state_queue) :
          LET i == IdxOf(state_queue[q][1].id)
          IN  Before(i, kinds) # {} =>
                 state_queue[q][3] = log[i].t - log[Last(Before(i, kinds))].t
    /\ (~headless_buffer /\ pc \notin SinkPcs /\ Of(Documents) # {}) =>
          LET i == Last(Of(Documents))
          IN  Before(i, kinds) # {} =>
                 state.recv_interval = log[i].t - log[Last(Before(i, kinds))].t

----------------------------------------------------------------------------
\* Properties.

\* C1: in buffered mode (enable_headless_buffer called before the loop
\* starts), under every interleaving of appends and pop_state() calls, the
\* non-None results of pop_state() are exactly the successfully decoded
\* messages, each once, in receive order: what was popped, then what is
\* queued, then what is being appended is the sequence of messages for which
\* json.loads returned a value.
C1_PoppedAreTheDecodedInOrder == PoppedInOrder(JsonValues)

\* The same with the messages that decode to a document (anything but the
\* JSON value null): for these the queue is an exactly-once FIFO.
DocumentsPoppedInOrder == PoppedInOrder(Documents)
DocumentsPoppedInOrder_witness ==
    /\ Len(popped) = 2
    /\ state_queue = <<>>
    /\ last_pop = NonePop

\* C2: in live mode, after valid messages M1 then M2 have been received, a
\* read under global_state_mutex observes M2's document only, recv_time
\* equal to M2's receive time and recv_interval equal to M2's receive time
\* minus M1's.  (The listener waiting at the mutex has not yet handed over
\* the message it holds.)
C2_LiveReadSeesLatest ==
    LET n == Len(log)
    IN  (/\ global_state_mutex = "reader"
         /\ pc # "m_lock"
         /\ n >= 2
         /\ log[n].kind = "doc"
         /\ log[n - 1].kind = "doc")
        => state = [doc |-> log[n].id,
                    recv_time |-> log[n].t,
                    recv_interval |-> log[n].t - log[n - 1].t]

C2_witness ==
    LET n == Len(log)
    IN  /\ global_state_mutex = "reader"
        /\ pc # "m_lock"
        /\ n >= 2
        /\ log[n].kind = "doc"
        /\ log[n - 1].kind = "doc"
        /\ log[n].t > log[n - 1].t
        /\ state.doc = log[n].id

\* C3: the interval attached to each delivered message equals its receive
\* time minus the receive time of the previous successfully decoded message
\* (the previous message for which json.loads returned a value), whatever
\* malformed, empty or oversized messages came in between.
C3_IntervalSincePreviousDecoded == IntervalSince(JsonValues)

\* The same measured from the previous message that decoded to a document:
\* the baseline is the receive time of the last delivered message.
IntervalSincePreviousDocument ==
    /\ IntervalSince(Documents)
    /\ (pc \notin SinkPcs /\ Of(Documents) # {}) =>
          prev_recv_time = log[Last(Of(Documents))].t
IntervalSincePreviousDocument_witness ==
    /\ Len(log) = 2
    /\ log[1].kind = "doc"
    /\ log[2].kind = "badjson"
    /\ log[2].t > log[1].t
    /\ pc = TopPc

\* C4: a payload that fails to decode, because it is not valid UTF-8 or
\* because it is not valid JSON, never terminates the receive loop: the
\* listener thread is never ended by an exception of the decode.
C4_DecodeFailureNeverEndsLoop == pc # "crashed"

\* C5: the step that handles a payload that fails to decode leaves the live
\* slot and the state queue as they were and does not enter a delivery, in
\* both delivery modes and on the datagram and the stream transport.
C5_FailedDecodeTouchesNoSink ==
    [][(pc = "decode" /\ pc' # "decode" /\ Decode(data) \in Undecodable)
       => (/\ state' = state
           /\ state_queue' = state_queue
           /\ pc' \notin SinkPcs)]_vars

C5_witness ==
    /\ Len(log) = 2
    /\ log[1].kind = "doc"
    /\ log[2].kind \in Undecodable
    /\ ndelivered = 1
    /\ DeliveredId(log[1].id)

\* C6: on a stream, for a frame of length 0 < N <= 1 MiB, however header and
\* payload arrive split, the header read takes the 4 header bytes and none
\* of the payload, what the payload read has collected is at every moment
\* the payload bytes of that frame read so far, and what is handed to the
\* decoder is exactly the N payload bytes the sender wrote.
C6_PayloadBytesExact ==
    transport = "stream" =>
       /\ (last_ret.at = "hdr" /\ last_ret.what = "bytes") => last_ret.had = 4
       /\ (pc = "recv" /\ recv_for = "pay") =>
             /\ 0 < cur.n /\ cur.n <= buffer_size
             /\ recv_n = cur.n
             /\ buf = Run(cur.id, 4, cpos)
       /\ pc = "decode" =>
             /\ 0 < cur.n /\ cur.n <= buffer_size
             /\ BufLen(data) = cur.n
             /\ data = PayloadOf(cur)

C6_witness ==
    /\ transport = "stream"
    /\ pc = "decode"
    /\ cur.n = buffer_size
    /\ data = PayloadOf(cur)

\* C7: on a stream, a frame of length N > 1 MiB is drained for exactly its N
\* payload bytes, is never decoded or delivered, and the header read that
\* follows starts at the first byte of the next frame.
C7_OversizedFrameSkipped ==
    transport = "stream" =>
       /\ (pc = "recv" /\ recv_for = "drain") =>
             /\ cur.n > buffer_size
             /\ recv_n = cur.n
             /\ buf = Run(cur.id, 4, cpos)
       /\ (pc = "recv" /\ recv_for = "hdr" /\ conn = "open") =>
             IF buf = <<>> THEN Consumed \/ cpos = 0
             ELSE cpos <= 4 /\ buf = Run(cur.id, 0, cpos)
       /\ pc \in {"decode"} \cup SinkPcs => cur.n <= buffer_size
       /\ \A i \in Of({"oversized"}) : ~DeliveredId(log[i].id)

C7_witness ==
    /\ transport = "stream"
    /\ Len(log) = 2
    /\ log[1].kind = "oversized"
    /\ log[2].kind = "doc"
    /\ ndelivered = 1
    /\ DeliveredId(log[2].id)

\* C8: the step that completes the header of a stream frame of length 0
\* goes on to the next loop iteration without reaching the decoder and
\* changes neither the live slot, nor the state queue, nor the interval
\* baseline.
C8_EmptyFrameChangesNothing ==
    [][(/\ transport = "stream"
        /\ pc = "recv" /\ recv_for = "hdr"
        /\ cur.id # 0 /\ cur.n = 0
        /\ cpos < 4 /\ cpos' = 4)
       => (/\ pc' = "top"
           /\ state' = state
           /\ state_queue' = state_queue
           /\ prev_recv_time' = prev_recv_time)]_vars

C8_witness ==
    /\ Len(log) = 2
    /\ log[1].kind = "doc"
    /\ log[2].kind = "empty"
    /\ pc = "recv" /\ recv_for = "hdr"
    /\ ndelivered = 1
    /\ DeliveredId(log[1].id)

\* C9: on a stream, the step that handles a complete frame whose payload is
\* malformed JSON leaves the socket open and connection_closed false and
\* goes on to the next loop iteration, where the next frame is read; and
\* every frame that reaches the decoder with a document, after a malformed
\* frame as well, is delivered: the deliveries made or under way are as many
\* as the documents decoded.
C9_MalformedFrameKeepsConnection ==
    /\ [][(/\ transport = "stream"
           /\ pc = "decode" /\ pc' # "decode"
           /\ Decode(data) = "badjson")
          => (/\ pc' = "top"
              /\ sock_open'
              /\ ~connection_closed')]_vars
    /\ [](transport = "stream" =>
            Cardinality(Of(Documents)) =
               ndelivered + (IF pc \in SinkPcs THEN 1 ELSE 0))

C9_witness ==
    /\ transport = "stream"
    /\ Len(log) = 2
    /\ log[1].kind = "badjson"
    /\ log[2].kind = "doc"
    /\ ndelivered = 1
    /\ DeliveredId(log[2].id)
    /\ sock_open
    /\ ~connection_closed

\* C10: once a poll has timed out with the stop flag set, in the datagram
\* receive, the stream header read, the stream payload read or the drain of
\* an oversized frame, the loop is at its exit: it is at the loop test with
\* the flag still set, or it has ended; and from then on no step delivers
\* anything to the live slot or to the queue.
C10_StopExitsAtNextTimeout ==
    /\ [](stop_timeout # "none" =>
            /\ ~should_run
            /\ stop_timeout = "udp" => pc \in {"udp_top", "done"}
            /\ stop_timeout \in {"hdr", "pay"} => pc = "done"
            /\ stop_timeout = "drain" => pc \in {"top", "done"})
    /\ [][stop_timeout # "none" =>
            /\ ndelivered' = ndelivered
            /\ state' = state
            /\ Len(state_queue') <= Len(state_queue)]_vars

C10_witness ==
    /\ stop_timeout = "drain"
    /\ pc = "done"
    /\ connection_closed

\* C11: after the stream loop has exited, connection_closed is true when the
\* loop ended because the connection was lost (the peer closed it, or a read
\* failed), and it is not set when the loop ended with the peer's end still
\* open, that is solely because stop_async() was requested.
C11_ClosedFlagTellsHangupFromStop ==
    (transport = "stream" /\ pc = "done") =>
        /\ conn = "lost" => connection_closed
        /\ conn = "shut" => ~connection_closed

\* C12: no run writes some decoded messages to the live slot and appends
\* others to the state queue, whenever enable_headless_buffer() is called.
\* The live slot has been written once its recv_time is set; the queue has
\* been appended to once it, or the list of popped entries, is not empty.
C12_OneSinkPerListener ==
    ~(state.recv_time # 0 /\ (state_queue # <<>> \/ popped # <<>>))

\* C13: when the peer has closed a stream connection before the 4-byte
\* header was complete (0, 1, 2 or 3 bytes of it read), the step with which
\* the listener leaves that read ends the loop as a shutdown: the socket is
\* closed and connection_closed is true, the partial header is not taken as a
\* length (msg_len is left alone, no frame is noted) and nothing is
\* delivered.
C13_EofInHeaderIsShutdown ==
    [][(/\ pc = "recv" /\ recv_for = "hdr" /\ conn = "lost"
        /\ BufLen(buf) < 4
        /\ pc' # pc) =>
           /\ pc' = "done"
           /\ ~sock_open'
           /\ connection_closed'
           /\ UNCHANGED <<msg_len, log, has_received, state, state_queue,
                          ndelivered, prev_recv_time>>]_vars

C13_witness ==
    /\ pc = "done"
    /\ last_ret = [what |-> "eof", at |-> "hdr", n |-> 4, had |-> 2]
    /\ ~sock_open
    /\ connection_closed
    /\ log = <<>>

\* C14: when the stream has ended after a header announcing a payload of
\* 0 < N <= 1 MiB bytes and before all N bytes arrived, the step with which
\* the listener leaves the payload read ends the loop; the partial payload is
\* not decoded (no message is noted, no document is in hand) and not
\* delivered, and has_received, the live slot, the queue and the interval
\* baseline are left as they were.
C14_EofInPayloadEndsLoop ==
    [][(/\ pc = "recv" /\ recv_for = "pay" /\ conn = "lost"
        /\ BufLen(buf) < recv_n
        /\ pc' # pc) =>
           /\ 0 < msg_len /\ msg_len <= buffer_size /\ recv_n = msg_len
           /\ pc' = "done"
           /\ j' = NoneJ
           /\ UNCHANGED <<log, has_received, state, state_queue, ndelivered,
                          prev_recv_time>>]_vars

C14_witness ==
    /\ pc = "done"
    /\ last_ret = [what |-> "eof", at |-> "pay", n |-> ScenarioLen, had |-> 2]
    /\ ~has_received
    /\ log = <<>>
    /\ state.recv_time = 0
    /\ state_queue = <<>>

\* C15: _recv_exactly(sock, n) returns exactly n bytes or None, never a short
\* result.  It returns None for a timeout only when the stop flag is set, and
\* for an end of stream or another I/O error; in each of these cases fewer
\* than n bytes had been collected.  While one call is in progress (a
\* timeout with the stop flag unset retries it) the bytes collected so far
\* are kept and n does not change.
C15_RecvExactlyAllOrNone ==
    /\ [](/\ last_ret.what \in {"nocall", "bytes", "timeout", "eof", "oserror"}
          /\ last_ret.what = "bytes" => last_ret.had = last_ret.n
          /\ last_ret.what \in {"timeout", "eof", "oserror"} =>
                last_ret.had < last_ret.n
          /\ last_ret.what = "timeout" => ~should_run)
    /\ [][(pc = "recv" /\ pc' = "recv" /\ recv_for' = recv_for) =>
            /\ recv_n' = recv_n
            /\ BufLen(buf') >= BufLen(buf)
            /\ BufLen(buf') < recv_n
            /\ last_ret' = last_ret]_vars

C15_witness ==
    /\ pc = "done"
    /\ last_ret = [what |-> "timeout", at |-> "pay", n |-> ScenarioLen,
                   had |-> 2]

\* C16: once a read of the stream loop (header, payload or drain of an
\* oversized frame) has failed with an I/O error that is no timeout, the loop
\* is over: no header read is in progress on that connection afterwards.
C16_IoErrorEndsLoop ==
    last_ret.what = "oserror" =>
        /\ pc \in {"top", "done"}
        /\ pc = "top" => ~should_run

\* C17: the listener thread never holds global_state_mutex and the queue
\* lock together: it holds the queue lock exactly during the append and the
\* mutex exactly during the writes of the live slot.  pop_state() and
\* queue_size() take only the queue lock and a reader of the live slot only
\* the mutex, so whenever the listener waits for a lock, either the lock is
\* free or its holder can release it without waiting for anything.
C17_LocksNeverNested ==
    /\ ~(global_state_mutex = "listener" /\ queue_lock = "listener")
    /\ queue_lock = "listener" <=> pc = "q_append"
    /\ global_state_mutex = "listener" <=>
          pc \in {"m_read", "m_time", "m_interval"}
    /\ pc = "q_lock" => ENABLED QLock
    /\ pc = "m_lock" => (ENABLED MLock \/ ENABLED ReaderRelease)
    /\ queue_lock = "free" => (ENABLED pop_state /\ ENABLED queue_size)

\* A listener that has written the live slot is appending to the queue while
\* a reader holds the mutex.
C17_witness ==
    /\ state.recv_time # 0
    /\ pc = "q_append"
    /\ queue_lock = "listener"
    /\ global_state_mutex = "reader"

Ascending(ids) == \A a, b \in 1..Len(ids) : a < b => ids[a] < ids[b]

\* C19: messages are decoded and delivered one at a time and in arrival
\* order.  While a message is being decoded or delivered it is the last one
\* the peer sent, all of it has been read and no byte of a later message has
\* been read.  While a frame is partly read no message is in hand and every
\* message noted so far came before it (or is this frame, found oversized
\* and being drained).  Messages are decoded in arrival order, the queue
\* (popped, queued, being appended) holds them in that order, and the live
\* slot holds the latest document.
C19_OneAtATimeInArrivalOrder ==
    /\ pc \in {"decode"} \cup SinkPcs =>
          /\ cur.id = nsent
          /\ cpos = IF transport = "stream" THEN WireLen(cur) ELSE cur.n
          /\ \A i \in 1..Len(log) : log[i].id <= cur.id
    /\ pc = "decode" => \A i \in 1..Len(log) : log[i].id < cur.id
    /\ pc \in SinkPcs => (j.id = cur.id /\ log[Len(log)].id = cur.id)
    /\ (pc = "recv" /\ cur # NoMsg /\ cpos > 0 /\ ~Consumed) =>
          /\ j = NoneJ /\ data = <<>>
          /\ \A i \in 1..Len(log) :
                \/ log[i].id < cur.id
                \/ log[i].id = cur.id /\ recv_for = "drain"
                                      /\ log[i].kind = "oversized"
    /\ Ascending(IdsOf(log, Kinds \cup {"empty", "oversized"}))
    /\ Ascending(popped \o QueuedIds \o InFlightIds)
    /\ (~headless_buffer /\ pc \notin SinkPcs /\ Of(Documents) # {}) =>
          LET i == Last(Of(Documents))
          IN  log[i].kind = "doc" => state.doc = log[i].id

\* Two documents were queued in the order they arrived, the first has been
\* popped and a third message is being read.
C19_witness ==
    /\ popped = <<1>>
    /\ QueuedIds = <<2>>
    /\ Len(log) = 2
    /\ pc \in {"recv", "udp_top"}

\* C20: stop_async() is idempotent and the stop flag is never cleared: once
\* should_run is false it stays false after every step, and a further
\* stop_async() changes nothing at all.
C20_StopIsIdempotentAndFinal ==
    [][~should_run => (/\ ~should_run'
                       /\ stop_async => UNCHANGED vars)]_vars

\* The flag is still set after the loop it stopped has read a message and
\* ended.
C20_witness ==
    /\ ~should_run
    /\ pc = "done"
    /\ log # <<>>
    /\ stop_timeout # "none"

\* The transport is the TCP listener, or the inherited descriptor.
IsTcp == transport = "stream" /\ orig_fd = "none"
IsFd == transport = "stream" /\ orig_fd # "none"

\* C21: in TCP mode, while accept is waiting nothing has been reported; when
\* accept has ended without a connection, run_from_tcp has returned (accept
\* is not called again), the listening socket is closed, the stream loop was
\* never entered (no socket, no read, no message noted or delivered) and the
\* failure has been reported, once, on standard error.
C21_AcceptTimeoutIsFinal ==
    /\ pc = "accept" => (stderr = <<>> /\ srv_open)
    /\ (IsTcp /\ pc # "accept" /\ naccepted = 0) =>
          /\ pc = "done"
          /\ stderr = <<[line |-> "accept_timeout"]>>
          /\ ~srv_open /\ ~sock_open
          /\ last_ret.what = "nocall"
          /\ log = <<>> /\ ndelivered = 0 /\ ~has_received
          /\ state.recv_time = 0 /\ state_queue = <<>> /\ popped = <<>>
          /\ ~connection_closed
    /\ naccepted > 0 => stderr = <<>>

C21_witness ==
    /\ IsTcp
    /\ pc = "done"
    /\ naccepted = 0
    /\ stderr # <<>>
    /\ ~should_run

\* C22: in TCP mode at most one connection is accepted per run: the listening
\* socket is open only while accept is waiting, so it is closed before the
\* first read of a frame, and once a connection has been accepted (and after
\* it has ended by end of stream, error or stop) accept is never waiting
\* again.
C22_OneConnectionPerRun ==
    /\ naccepted <= 1
    /\ srv_open => (pc = "accept" /\ naccepted = 0)
    /\ naccepted = 1 => (IsTcp /\ pc # "accept" /\ ~srv_open)
    /\ (pc = "recv" \/ last_ret.what # "nocall") => ~srv_open

C22_witness ==
    /\ IsTcp
    /\ naccepted = 1
    /\ pc = "done"
    /\ last_ret.what = "eof"
    /\ Len(log) = 1

\* C23: the resolved port is exposed before any data can be received.  In UDP
\* mode, from the loop's start on, actual_port is the port the socket is
\* bound to; in TCP mode actual_port is that port and the line
\* TCP_PORT:<port> has been printed on standard output from the moment accept
\* is waiting; so on these two transports has_received implies that
\* actual_port holds the resolved port.
C23_PortExposedBeforeData ==
    /\ (transport = "udp" /\ pc # "idle") =>
          /\ actual_port \in Ports
          /\ Len(stdout) >= 1
          /\ stdout[1] = [line |-> "created", port |-> actual_port]
    /\ (IsTcp /\ pc # "idle") =>
          /\ actual_port \in Ports
          /\ Len(stdout) >= 1
          /\ stdout[1] = [line |-> "TCP_PORT", port |-> actual_port]
    /\ (has_received /\ ~IsFd) => actual_port \in Ports
    /\ actual_port = 0 => (pc = "idle" \/ IsFd)

C23_witness ==
    /\ IsTcp
    /\ has_received
    /\ actual_port \in Ports
    /\ stdout[1].line = "TCP_PORT"

\* C24: every received message whose payload is valid UTF-8 JSON produces
\* exactly one delivery to the active sink, whatever value it decodes to,
\* null included: the deliveries made, with the one in progress, are as many
\* as the messages for which json.loads returned a value.
C24_EveryJsonValueDelivered ==
    ndelivered + (IF pc \in SinkPcs THEN 1 ELSE 0) = Cardinality(Of(JsonValues))

C26_PopNeverBlocksSizeIsBalance ==
    /\ [](/\ queue_size_result = ndelivered - Len(popped)
          /\ queue_lock = "free" => (ENABLED pop_state /\ ENABLED queue_size))
    /\ [][(state_queue = <<>> /\ last_pop' # last_pop) =>
            (last_pop' = NonePop /\ state_queue' = <<>> /\ popped' = popped)]_vars

\* One message was appended and popped, and a further pop_state() on the
\* empty queue has returned None.
C26_witness ==
    /\ ndelivered = 1
    /\ Len(popped) = 1
    /\ state_queue = <<>>
    /\ last_pop = NonePop

\* C27: on every transport, each malformed payload has its diagnostic, and
\* the diagnostic includes the error offset, the window of the document
\* clipped to [max(0, pos - 10), min(pos + 10, len)) and a caret under the
\* midpoint of that window.
C27_DiagnosticHasWindowAndCaret ==
    LET errs == {i \in 1..Len(stdout) : stdout[i].line = "json_error"}
    IN  /\ Cardinality(errs) = Cardinality(Of({"badjson"}))
        /\ \A i \in errs :
              LET d == stdout[i]
                  a == Max(0, d.pos - view_range)
                  b == Min(d.pos + view_range, d.len)
              IN  /\ d.window
                  /\ d.start = a
                  /\ d.stop = b
                  /\ d.caret = snippet_prefix_len + ((b - a) \div 2)

\* The listener thread is in one of its loops.
InLoop == pc \notin {"idle", "fd_close", "accept", "done", "crashed"}

\* C28: once stop_async() has been called, a running UDP loop or stream loop
\* is eventually over (every blocking receive returning in the end), and the
\* stream loop, however it was left, has then closed its socket.
C28_StopEventuallyExits ==
    (~should_run /\ InLoop) ~> (pc \in {"done", "crashed"} /\ ~sock_open)

\* The same for loops that meet no payload that is not UTF-8: they exit
\* after a stop, and every exit of the stream loop has closed the socket.
StopExitsUnlessCrash ==
    /\ (~should_run /\ InLoop) ~> (pc \in {"done", "crashed"})
    /\ [](pc = "done" => ~sock_open)
    /\ [](pc = "crashed" => log[Len(log)].kind = "badutf8")

\* C29: after stop_async() has been called, a running loop notes at most one
\* further message and delivers at most one further message to the live slot
\* or the queue (the message whose receive was in progress); once it has
\* done either, it reads nothing more, except to drain the oversized frame it
\* has just noted: it never starts reading a second message.
C29_AtMostOneDeliveryAfterStop ==
    at_stop # NoStop =>
       /\ ndelivered - at_stop.nd \in {0, 1}
       /\ Len(log) - at_stop.nl \in {0, 1}
       /\ (ndelivered > at_stop.nd \/ Len(log) > at_stop.nl) =>
             /\ pc \notin {"udp_recv", "decode"}
             /\ pc = "recv" =>
                   (recv_for = "drain" /\ log[Len(log)].kind = "oversized")
       /\ ndelivered > at_stop.nd => pc \in {"top", "udp_top", "done"}

\* The loop was stopped while a message was on its way, has delivered that
\* message and has ended.
C29_witness ==
    /\ at_stop.nd = 0 /\ at_stop.nl = 0
    /\ ndelivered = 1
    /\ Len(log) = 1
    /\ pc = "done"
    /\ nsent = 1

\* C30: has_received is monotonic, and it is true exactly when a complete
\* datagram or a complete stream payload of 0 < N <= 1 MiB bytes has been
\* read: it is set before the decode, whatever the decode makes of the
\* payload, and empty frames, oversized frames and truncated payloads (which
\* are never handed to the decoder) do not set it.
C30_HasReceivedMeansPayloadRead ==
    /\ [][has_received => has_received']_vars
    /\ [](/\ has_received <=> (pc = "decode" \/ Of(Kinds) # {})
          /\ (pc = "decode" /\ transport = "stream") =>
                (0 < cur.n /\ cur.n <= buffer_size /\ data = PayloadOf(cur)))

\* has_received is true although nothing was delivered: the only complete
\* payload was malformed; an empty frame followed it.
C30_witness ==
    /\ has_received
    /\ ndelivered = 0
    /\ state.recv_time = 0 /\ state_queue = <<>> /\ popped = <<>>
    /\ Len(log) = 2
    /\ log[1].kind = "badjson"
    /\ log[2].kind = "empty"

\* C31: the UDP loop is over only when the stop flag is set: while
\* stop_async() has not been called the loop has not ended, in whatever way,
\* and the loop never sets connection_closed.
C31_UdpLoopEndsOnlyOnStop ==
    transport = "udp" =>
       /\ ~connection_closed
       /\ pc \in {"done", "crashed"} => ~should_run

\* What the UDP loop does keep: every failure of recvfrom is retried (the
\* step after it is the loop test, whatever the stop flag says), the loop
\* returns only with the stop flag set, never sets connection_closed, and
\* ends otherwise only by the exception of a datagram that is not UTF-8.
UdpLoopEndsOnStopOrCrash ==
    /\ [](transport = "udp" =>
            /\ ~connection_closed
            /\ pc = "done" => ~should_run
            /\ pc = "crashed" => log[Len(log)].kind = "badutf8")
    /\ [][(pc = "udp_recv" /\ pc' \notin {"udp_recv", "decode"})
            => pc' = "udp_top"]_vars
UdpLoopEndsOnStopOrCrash_witness ==
    /\ transport = "udp"
    /\ pc = "udp_recv"
    /\ stop_timeout = "none"
    /\ should_run
    /\ Len(log) = 2

\* C32: in live mode, when read_from_json raises on a decoded document, the
\* delivery is completed all the same: recv_time is that message's receive
\* time, recv_interval is that time minus the baseline (the receive time of
\* the document delivered before it), the baseline has moved to that
\* message's receive time, the mutex is released, and the loop goes on: the
\* document itself was not taken, and the thread has not ended because of it.
C32_ReadFailureStillStampsTimes ==
    LET D == Of(Documents)
    IN  (/\ ~headless_buffer
         /\ D # {}
         /\ log[Last(D)].kind = "badschema"
         /\ pc \notin SinkPcs) =>
           LET i == Last(D)
           IN  /\ state.recv_time = log[i].t
               /\ prev_recv_time = log[i].t
               /\ Before(i, Documents) # {} =>
                     state.recv_interval =
                        log[i].t - log[Last(Before(i, Documents))].t
               /\ state.recv_interval >= 0
               /\ state.doc # log[i].id
               /\ global_state_mutex # "listener"
               /\ pc = "crashed" =>
                     (i < Len(log) /\ log[Len(log)].kind = "badutf8")

\* A document is delivered, then one on which read_from_json raises arrives
\* later; the loop is reading the next message.
C32_witness ==
    /\ ~headless_buffer
    /\ Len(log) = 2
    /\ log[1].kind = "doc"
    /\ log[2].kind = "badschema"
    /\ log[2].t > log[1].t
    /\ state.doc = PartialDoc
    /\ state.recv_time = log[2].t
    /\ state.recv_interval = log[2].t - log[1].t
    /\ pc = "recv"

LoopBegins == pc \in {"idle", "fd_close", "accept"} /\ pc' \in {"top", "udp_top"}

\* C34: the baseline is initialised when the receive loop begins, to the
\* clock at that moment, and changes afterwards only when a message is
\* delivered, to that message's receive time; so the interval of the first
\* delivered message is measured from the start of the loop.  Every delivery
\* attaches the message's receive time minus the baseline current at that
\* moment, and every interval delivered is >= 0 (the clock does not go back).
C34_IntervalFromBaseline ==
    /\ [](/\ \A q \in 1..Len(state_queue) : state_queue[q][3] >= 0
          /\ state.recv_interval >= 0
          /\ prev_recv_time <= now
          /\ pc \in SinkPcs => (prev_recv_time <= recv_time /\ recv_time <= now))
    /\ [][/\ LoopBegins => (prev_recv_time' = now' /\ now' >= now)
          /\ prev_recv_time' # prev_recv_time =>
                \/ LoopBegins
                \/ (pc \in {"q_append", "m_interval"}
                      /\ prev_recv_time' = recv_time)
          /\ (pc = "q_append" /\ pc' # "q_append") =>
                state_queue' = Append(state_queue,
                                      <<j, recv_time,
                                        recv_time - prev_recv_time>>)
          /\ (pc = "m_interval" /\ pc' # "m_interval") =>
                /\ state'.recv_time = recv_time
                /\ state'.recv_interval = recv_time - prev_recv_time]_vars

\* The first message of a run is queued with the time that passed since the
\* loop began.
C34_witness ==
    /\ headless_buffer
    /\ Len(log) = 1
    /\ log[1].kind = "doc"
    /\ Len(state_queue) = 1
    /\ state_queue[1][3] > 0
    /\ state_queue[1][2] = log[1].t
    /\ popped = <<>>

----------------------------------------------------------------------------
\* Properties of the video recorder.

\* C35: has_new_data(recv_time) returns true exactly when recv_time > 0 and
\* differs from the recv_time of the last call that returned true (there may
\* be none yet: last_true is 0 then, which no positive recv_time equals); so a
\* repeated call with an unchanged recv_time returns false; and a call with
\* recv_time <= 0 returns false and leaves the remembered value as it was.
C35_HasNewDataDetectsChange ==
    last_call.op = "has_new_data" =>
       /\ last_call.ret <=> (last_call.arg > 0 /\ last_call.arg # last_call.lt)
       /\ last_call.arg <= 0 => (~last_call.ret /\
                                  last_recv_time = last_call.mem)
       /\ last_call.ret => last_recv_time = last_call.arg
       /\ ~last_call.ret => last_recv_time = last_call.mem

\* The call is repeated with the recv_time that was new the time before.
C35_witness ==
    /\ last_call.op = "has_new_data"
    /\ last_call.arg > 0
    /\ last_call.arg = last_call.lt
    /\ ~last_call.ret

\* C36: over every sequence of start, stop, write_frame and
\* write_single_frame calls with pipe failures, is_recording implies that the
\* handle of a running encoder process is present; a write made while not
\* recording writes nothing and changes no field, frame_count included; a
\* start while recording changes nothing; and from a pipe failure until a
\* start succeeds is_recording is false and no handle is held, so that every
\* write in between is such a write made while not recording.
C36_RecordingImpliesEncoder ==
    /\ is_recording =>
          /\ proc \in 1..Len(procs)
          /\ procs[proc] = [stdin |-> "open", ended |-> "no"]
    /\ (last_call.op \in {"write_frame", "write_single_frame"}
          /\ ~last_call.rec) =>
          /\ last_call.wrote = 0
          /\ frame_count = last_call.fc
          /\ ~is_recording
          /\ proc = last_call.proc
          /\ recording_path = last_call.path
          /\ fractional_frames = last_call.ff
    /\ last_call.op = "start_ignored" =>
          /\ last_call.rec /\ is_recording
          /\ proc = last_call.proc
          /\ frame_count = last_call.fc
          /\ recording_path = last_call.path
          /\ fractional_frames = last_call.ff
    /\ pipe_failed => (~is_recording /\ proc = NoneProc)
    /\ (last_call.op \in {"write_frame", "write_single_frame"}
          /\ last_call.rec /\ ~last_call.ret) =>
          (pipe_failed /\ ~is_recording)

\* A write after a pipe failure that came after a frame had been written:
\* nothing is written and the count stays.
C36_witness ==
    /\ pipe_failed
    /\ last_call.op = "write_frame"
    /\ ~last_call.rec
    /\ frame_count > 0
    /\ last_call.wrote = 0

\* C37: after a stop() every encoder process that was started is finalized,
\* its input closed and the process waited for or killed; and after the first
\* stop() that follows a successful start(), frame_count is 0 and
\* recording_path is None, also when a write failed on a broken pipe in
\* between.
C37_StopFinalizesEveryEncoder ==
    last_call.op = "stop" =>
       /\ \A p \in 1..Len(procs) :
             /\ procs[p].stdin = "closed"
             /\ procs[p].ended \in {"waited", "killed"}
       /\ last_call.since =>
             (frame_count = 0 /\ recording_path = NonePath)

\* What stop() does do: called while recording, it finalizes the process of
\* that recording and resets the count and the path.
StopWhileRecordingFinalizes ==
    (last_call.op = "stop" /\ last_call.rec) =>
       /\ procs[last_call.proc].stdin = "closed"
       /\ procs[last_call.proc].ended \in {"waited", "killed"}
       /\ ~is_recording /\ proc = NoneProc
       /\ frame_count = 0 /\ recording_path = NonePath
StopWhileRecordingFinalizes_witness ==
    /\ last_call.op = "stop"
    /\ last_call.rec
    /\ last_call.fc > 0
    /\ procs[last_call.proc].ended = "killed"
====
